---- MODULE Spec2Model ----
(***************************************************************************)
(* TraceNode and FunctionNode of                                           *)
(* Source/ComputationNetworkLib/SpecialPurposeNodes.cpp.                   *)
(*                                                                         *)
(* The graph that is modelled is one input node X that feeds the node N,   *)
(* a TraceNode or a FunctionNode:  X -> N.  A tensor is a function from    *)
(* the frames (time steps) of a minibatch to element values; strings are   *)
(* sequences of character codes.                                           *)
(***************************************************************************)
EXTENDS Integers, Sequences, FiniteSets, TLC

\* ------------------------------------------------------------------ bounds
NumFrames == 2      \* frames (time steps) of the minibatch
MaxVal == 1         \* element values are 0..MaxVal
MaxGrad == 2        \* an accumulated input gradient stays within 0..MaxGrad
MaxRuns == 31       \* forward passes per validation epoch in SpecTrace
MaxPasses == 2      \* forward passes per validation epoch in the other specifications
MaxPrologue == 3    \* prologue writes followed per validation epoch
MaxLoads == 2       \* Plugin::Load calls followed per operator name
NumThreads == 2     \* threads in SpecConc

\* ------------------------------------------------------- program constants
SizeBits == 64      \* width of size_t, the type of m_numMBsRun and m_logFrequency
CharRange == 256    \* values of a char, the element type of m_funcName

Frames == 0 .. (NumFrames - 1)
Vals == 0 .. MaxVal
Tensors == [Frames -> Vals]
ZeroTensor == [t \in Frames |-> 0]

\* A FrameRange: all frames, or the time range [first, second).
AllFrames == [all |-> TRUE, first |-> 0, second |-> 0]
TimeRanges == {r \in [all : {FALSE}, first : Frames, second : 1 .. NumFrames] : r.first < r.second}
FrameRanges == {AllFrames} \cup TimeRanges

\* Frame ranges whose time range holds no frame: second <= first.
EmptyTimeRanges == {r \in [all : {FALSE}, first : Frames, second : 0 .. NumFrames] : r.second <= r.first}

\* The frames a tensor view for fr addresses.
ValueTensorFor(fr) == IF fr.all THEN Frames ELSE {t \in Frames : fr.first <= t /\ t < fr.second}
GradientTensorFor(fr) == ValueTensorFor(fr)

\* TensorView::AssignCopyOf and TensorView::AddCopyOf on the addressed view.
AssignCopyOf(dst, src, view) == [t \in Frames |-> IF t \in view THEN src[t] ELSE dst[t]]
AddCopyOf(dst, src, view) == [t \in Frames |-> IF t \in view THEN dst[t] + src[t] ELSE dst[t]]

\* ----------------------------------------------------------------- strings
EmptyStr == << >>
Placeholder == <<60, 112, 108, 97, 99, 101, 104, 111, 108, 100, 101, 114, 62>>  \* L"<placeholder>"

VARIABLES
    \* TraceNode, persisted fields
    m_message, m_logFirst, m_logFrequency, m_logGradientToo, m_formattingOptions,
    m_onlyUpToRow, m_onlyUpToT,
    \* TraceNode, cached fields
    m_numMBsRun, m_labelMapping,
    \* the BeginForwardProp calls made on the node since its last Validate
    numBegins,
    \* the class of N, "Trace" or "Function"
    nodeKind,
    \* value and gradient of the input X (InputRef(0)) and of N
    xValue, xGrad, value, gradient,
    \* what the last handler wrote to stderr, and the prologue writes of this epoch
    lastLog, prologueCount,
    \* the last handler that ran, its frame range, and m_numMBsRun when it was called
    lastOp, lastFr, prevRun,
    \* the checkpoint stream, and the persisted fields of the node that Save wrote
    file, saved,
    \* FunctionNode: the node's graph name and operator name
    m_nodeName, m_funcName,
    \* the process-wide map of get_map(), and the behaviour of the deployed module
    functions_map, externMutates,
    \* per operator name: the Plugin::Load calls that succeeded, and the entry points
    \* that resolutions returned
    loads, resolved,
    \* how the last FunctionNode::ForwardProp ended
    fOutcome,
    \* threads that run FunctionNode::ForwardProp, each on a node of its own
    pc, thrFunc, thrIn, thrOut

traceCfg == <<m_message, m_logFirst, m_logFrequency, m_logGradientToo, m_formattingOptions,
              m_onlyUpToRow, m_onlyUpToT>>
tensors == <<nodeKind, xValue, xGrad, value, gradient>>
ckptVars == <<file, saved>>
funcVars == <<m_nodeName, m_funcName, functions_map, externMutates, loads, resolved, fOutcome>>
thrVars == <<pc, thrFunc, thrIn, thrOut>>
vars == <<traceCfg, m_numMBsRun, numBegins, m_labelMapping, tensors, lastLog, prologueCount,
          lastOp, lastFr, prevRun, ckptVars, funcVars, thrVars>>

\* ------------------------------------------------------------- TraceNode
\* 2^k mod f, for the unsigned wrap of m_numMBsRun - 1 at m_numMBsRun = 0.
RECURSIVE PowMod2(_, _)
PowMod2(k, f) == IF k = 0 THEN 1 % f ELSE (2 * PowMod2(k - 1, f)) % f

\* (m_numMBsRun - 1) % m_logFrequency in size_t arithmetic, for f > 0.
RunMinusOneMod(n, f) == IF n > 0 THEN (n - 1) % f ELSE (PowMod2(SizeBits, f) + f - 1) % f

\* Mutant of LogEmits: the periodic rule tests the run number itself.
LogEmitsNoMinusOne(n, first, freq) == n <= first \/ (freq # 0 /\ n % freq = 0)

\* The condition of line 112: does Log print the trace record in run n?
LogEmits(n, first, freq) == n <= first \/ (freq # 0 /\ RunMinusOneMod(n, freq) = 0)

\* Mutant of TimeLabel: the range is printed with its exclusive end.
TimeLabelExclusive(fr) ==
    IF fr.all THEN << >>
    ELSE IF fr.second = fr.first + 1 THEN <<fr.first>>
    ELSE IF fr.second > fr.first + 1 THEN <<fr.first, fr.second>>
    ELSE << >>

\* The text between "Trace[" and "]" (lines 122-129), as a sequence of integers.
TimeLabel(fr) ==
    IF fr.all THEN << >>
    ELSE IF fr.second = fr.first + 1 THEN <<fr.first>>
    ELSE IF fr.second > fr.first + 1 THEN <<fr.first, fr.second - 1>>
    ELSE << >>

NoLog == [called |-> FALSE, prologue |-> FALSE, emitted |-> FALSE, gradient |-> FALSE,
          run |-> 0, label |-> << >>, shown |-> << >>]

\* TraceNode::Log: what one call writes to stderr; input is the tensor of InputRef(0),
\* its value or its gradient, that WriteMinibatchWithFormatting (line 131) is called on.
Log(fr, logGradientInstead, input) ==
    LET emits == LogEmits(m_numMBsRun, m_logFirst, m_logFrequency)
    IN  [called |-> TRUE,
         prologue |-> (m_numMBsRun = 1),
         emitted |-> emits,
         gradient |-> (emits /\ logGradientInstead),
         run |-> m_numMBsRun,
         label |-> IF emits THEN TimeLabel(fr) ELSE << >>,
         shown |-> IF emits THEN input ELSE << >>]

\* The prologue writes of the epoch after a handler that wrote `log`.
CountPrologue(log) == IF log.prologue THEN prologueCount + 1 ELSE prologueCount

\* A handler that calls Log is followed while the epoch's prologue count is below the bound.
LogBound == m_numMBsRun = 1 => prologueCount < MaxPrologue

\* File::LoadLabelFile: the labels of the mapping file at path, one per line.
LoadLabelFile(path) == IF path = <<104, 105>> THEN <<"label0", "label1">> ELSE <<"other0">>

\* Mutant of ValidateLabelMapping: the mapping is loaded although one is there.
ValidateLabelMappingReload(isFinalValidationPass) ==
    IF isFinalValidationPass
       /\ (m_formattingOptions.isCategoryLabel \/ m_formattingOptions.isSparse)
       /\ m_formattingOptions.labelMappingFile # EmptyStr
    THEN LoadLabelFile(m_formattingOptions.labelMappingFile)
    ELSE m_labelMapping

\* m_labelMapping after TraceNode::Validate (lines 141-145).
ValidateLabelMapping(isFinalValidationPass) ==
    IF isFinalValidationPass
       /\ m_labelMapping = << >>
       /\ (m_formattingOptions.isCategoryLabel \/ m_formattingOptions.isSparse)
       /\ m_formattingOptions.labelMappingFile # EmptyStr
    THEN LoadLabelFile(m_formattingOptions.labelMappingFile)
    ELSE m_labelMapping

\* Mutant of ValidateRunCounter: the reset sits inside the final-pass branch.
ValidateRunCounterFinalOnly(isFinalValidationPass) ==
    IF isFinalValidationPass THEN 0 ELSE m_numMBsRun

\* m_numMBsRun after TraceNode::Validate (line 146).
ValidateRunCounter(isFinalValidationPass) == 0

TraceValidate(isFinalValidationPass) ==
    /\ nodeKind = "Trace"
    /\ m_labelMapping' = ValidateLabelMapping(isFinalValidationPass)
    /\ m_numMBsRun' = ValidateRunCounter(isFinalValidationPass)
    /\ numBegins' = 0
    /\ prologueCount' = 0
    /\ lastLog' = NoLog
    /\ lastOp' = "TraceValidate"
    /\ lastFr' = AllFrames
    /\ prevRun' = m_numMBsRun
    /\ UNCHANGED <<traceCfg, tensors, ckptVars, funcVars, thrVars>>

\* Mutant of BeginRunCounter: the increment is left out.
BeginRunCounterSame == m_numMBsRun

\* m_numMBsRun after TraceNode::BeginForwardProp (line 72).
BeginRunCounter == m_numMBsRun + 1

TraceBeginForwardProp(cap) ==
    /\ nodeKind = "Trace"
    /\ m_numMBsRun < cap
    /\ m_numMBsRun' = BeginRunCounter
    /\ numBegins' = numBegins + 1
    /\ lastLog' = NoLog
    /\ lastOp' = "TraceBeginForwardProp"
    /\ lastFr' = AllFrames
    /\ prevRun' = m_numMBsRun
    /\ UNCHANGED <<traceCfg, m_labelMapping, prologueCount, tensors, ckptVars, funcVars, thrVars>>

\* Mutant of TraceForwardValue: the copy of the input is left out.
TraceForwardValueNoCopy(fr) == value

\* The value of N after TraceNode::ForwardProp (lines 78-81).
TraceForwardValue(fr) == AssignCopyOf(value, xValue, ValueTensorFor(fr))

TraceForwardProp(fr) ==
    /\ nodeKind = "Trace"
    /\ LogBound
    /\ value' = TraceForwardValue(fr)
    /\ lastLog' = Log(fr, FALSE, xValue)
    /\ prologueCount' = CountPrologue(Log(fr, FALSE, xValue))
    /\ lastOp' = "TraceForwardProp"
    /\ lastFr' = fr
    /\ prevRun' = m_numMBsRun
    /\ UNCHANGED <<traceCfg, m_numMBsRun, numBegins, m_labelMapping, nodeKind, xValue, xGrad, gradient,
                   ckptVars, funcVars, thrVars>>

\* The gradient of X after TraceNode::BackpropTo (lines 92-96).
TraceBackpropGrad(fr) == AddCopyOf(xGrad, gradient, GradientTensorFor(fr))

\* Mutant of TraceBackpropLog: the gradient is logged whatever m_logGradientToo is.
TraceBackpropLogAlways(fr) == Log(fr, TRUE, TraceBackpropGrad(fr))

\* What TraceNode::BackpropTo logs (lines 99-100), the gradient of X being added to.
TraceBackpropLog(fr) ==
    IF m_logGradientToo THEN Log(fr, TRUE, TraceBackpropGrad(fr)) ELSE NoLog

TraceBackpropTo(fr) ==
    /\ nodeKind = "Trace"
    /\ m_logGradientToo => LogBound
    /\ \A t \in Frames : TraceBackpropGrad(fr)[t] <= MaxGrad
    /\ xGrad' = TraceBackpropGrad(fr)
    /\ lastLog' = TraceBackpropLog(fr)
    /\ prologueCount' = CountPrologue(TraceBackpropLog(fr))
    /\ lastOp' = "TraceBackpropTo"
    /\ lastFr' = fr
    /\ prevRun' = m_numMBsRun
    /\ UNCHANGED <<traceCfg, m_numMBsRun, numBegins, m_labelMapping, nodeKind, xValue, value, gradient,
                   ckptVars, funcVars, thrVars>>

\* ------------------------------------------------ TraceNode: checkpoint
\* File << and File >> of the binary checkpoint stream, a sequence of words: a string
\* is its characters and a terminating 0, a size_t or a bool is one word.
PutString(str) == str \o <<0>>
PutSize(n) == <<n>>
PutBool(b) == <<IF b THEN 1 ELSE 0>>

\* The index of the first 0 of a stream.
RECURSIVE Terminator(_, _)
Terminator(stream, i) ==
    IF i > Len(stream) \/ stream[i] = 0 THEN i ELSE Terminator(stream, i + 1)

GetString(stream) ==
    LET n == Terminator(stream, 1)
    IN  [val |-> SubSeq(stream, 1, n - 1), rest |-> SubSeq(stream, n + 1, Len(stream))]
GetSize(stream) == [val |-> Head(stream), rest |-> Tail(stream)]
GetBool(stream) == [val |-> (Head(stream) # 0), rest |-> Tail(stream)]

\* WriteFormattingOptions::Save and ::Load: the block of the formatting options.
FormatSave(o) ==
    PutBool(o.isCategoryLabel) \o PutString(o.labelMappingFile)
        \o PutBool(o.isSparse) \o PutString(o.prologue)
FormatLoad(stream) ==
    LET a == GetBool(stream)
        b == GetString(a.rest)
        c == GetBool(b.rest)
        d == GetString(c.rest)
    IN  [val |-> [isCategoryLabel |-> a.val, isSparse |-> c.val,
                  labelMappingFile |-> b.val, prologue |-> d.val],
         rest |-> d.rest]

\* The persisted fields of the node.
PersistedFields ==
    [message |-> m_message, logFirst |-> m_logFirst, logFrequency |-> m_logFrequency,
     logGradientToo |-> m_logGradientToo, formattingOptions |-> m_formattingOptions,
     onlyUpToRow |-> m_onlyUpToRow, onlyUpToT |-> m_onlyUpToT]

\* What TraceNode::Save writes (lines 45-52).
TraceSaveStream ==
    PutString(m_message) \o PutSize(m_logFirst) \o PutSize(m_logFrequency)
        \o PutBool(m_logGradientToo) \o FormatSave(m_formattingOptions)
        \o PutSize(m_onlyUpToRow) \o PutSize(m_onlyUpToT)

\* Mutant of TraceLoadFields: m_logFrequency is read before m_logFirst.
TraceLoadFieldsSwapped(stream) ==
    LET a == GetString(stream)
        c == GetSize(a.rest)
        b == GetSize(c.rest)
        d == GetBool(b.rest)
        e == FormatLoad(d.rest)
        f == GetSize(e.rest)
        g == GetSize(f.rest)
    IN  [message |-> a.val, logFirst |-> b.val, logFrequency |-> c.val,
         logGradientToo |-> d.val, formattingOptions |-> e.val,
         onlyUpToRow |-> f.val, onlyUpToT |-> g.val]

\* What TraceNode::Load reads (lines 59-65).
TraceLoadFields(stream) ==
    LET a == GetString(stream)
        b == GetSize(a.rest)
        c == GetSize(b.rest)
        d == GetBool(c.rest)
        e == FormatLoad(d.rest)
        f == GetSize(e.rest)
        g == GetSize(f.rest)
    IN  [message |-> a.val, logFirst |-> b.val, logFrequency |-> c.val,
         logGradientToo |-> d.val, formattingOptions |-> e.val,
         onlyUpToRow |-> f.val, onlyUpToT |-> g.val]

NothingSaved == [written |-> FALSE, differed |-> FALSE, node |-> << >>]

\* The persisted fields become those of the record `to`.
SetPersisted(to) ==
    /\ m_message' = to.message
    /\ m_logFirst' = to.logFirst
    /\ m_logFrequency' = to.logFrequency
    /\ m_logGradientToo' = to.logGradientToo
    /\ m_formattingOptions' = to.formattingOptions
    /\ m_onlyUpToRow' = to.onlyUpToRow
    /\ m_onlyUpToT' = to.onlyUpToT

\* TraceNode::TraceNode(configp): a new node N with the fields of the config.
TraceConstruct(config) ==
    /\ nodeKind' = "Trace"
    /\ SetPersisted(config)
    /\ m_numMBsRun' = 0
    /\ numBegins' = 0
    /\ m_labelMapping' = << >>
    /\ value' = ZeroTensor
    /\ lastLog' = NoLog
    /\ prologueCount' = 0
    /\ lastOp' = "TraceConstruct"
    /\ lastFr' = AllFrames
    /\ prevRun' = m_numMBsRun
    /\ UNCHANGED <<xValue, xGrad, gradient, ckptVars, funcVars, thrVars>>

TraceSave ==
    /\ nodeKind = "Trace"
    /\ file' = TraceSaveStream
    /\ saved' = [written |-> TRUE, differed |-> FALSE, node |-> PersistedFields]
    /\ lastLog' = NoLog
    /\ lastOp' = "TraceSave"
    /\ lastFr' = AllFrames
    /\ prevRun' = m_numMBsRun
    /\ UNCHANGED <<traceCfg, m_numMBsRun, numBegins, m_labelMapping, prologueCount, tensors,
                   funcVars, thrVars>>

TraceLoad ==
    /\ nodeKind = "Trace"
    /\ saved.written
    /\ SetPersisted(TraceLoadFields(file))
    /\ saved' = [saved EXCEPT !.differed = (PersistedFields # TraceLoadFields(file))]
    /\ lastLog' = NoLog
    /\ lastOp' = "TraceLoad"
    /\ lastFr' = AllFrames
    /\ prevRun' = m_numMBsRun
    /\ UNCHANGED <<file, m_numMBsRun, numBegins, m_labelMapping, prologueCount, tensors, funcVars, thrVars>>

\* ---------------------------------------------------------- FunctionNode
\* std::string(m_nodeName.begin(), m_nodeName.end()): every wchar_t is cut to a char.
Narrow(wstr) == [i \in 1 .. Len(wstr) |-> wstr[i] % CharRange]

\* The graph names a builder gives the node, and the operator names they narrow to.
NodeNames == {<<110, 49>>, <<366, 50>>}
FuncNames == {Narrow(n) : n \in NodeNames \cup {Placeholder}}

\* An entry point is the symbol of a module; NullFunc is the unset `externalFunc func`.
NullFunc == [module |-> "", symbol |-> ""]
EmptyMap == [n \in {} |-> NullFunc]
MapInsert(fmap, name, func) ==
    [n \in DOMAIN fmap \cup {name} |-> IF n = name THEN func ELSE fmap[n]]

\* Plugin::Load(plugin, proc) when the module loads and the symbol binds.
PluginLoad(plugin, proc) == [module |-> plugin, symbol |-> proc]

\* The external function called on a tensor view: it leaves the view as it is, or (a
\* module that mutates) adds 1 to every element of it.
ExternApply(func, tensor, view) ==
    IF externMutates
    THEN [t \in Frames |-> IF t \in view THEN (tensor[t] + 1) % (MaxVal + 1) ELSE tensor[t]]
    ELSE tensor

\* Lines 223-228: `auto fmap = get_map()` copies the map; is name absent from the copy?
MapMisses(name) == LET fmap == functions_map IN name \notin DOMAIN fmap

\* Lines 228-235: the entry point FunctionNodeExternCall calls for name.
ResolveFunc(name) ==
    LET fmap == functions_map
    IN  IF name \notin DOMAIN fmap THEN PluginLoad("abc", "f") ELSE fmap[name]

\* Mutant of MapAfterCall: the entry is stored before the load is known to have succeeded.
MapAfterCallPartial(name, ok) ==
    IF name \in DOMAIN functions_map THEN functions_map
    ELSE MapInsert(functions_map, name, IF ok THEN PluginLoad("abc", "f") ELSE NullFunc)

\* The map of get_map() after FunctionNodeExternCall(name) whose Plugin::Load, if it
\* is called, succeeds (ok) or throws: lines 223-238 hold no insertion.
MapAfterCall(name, ok) == functions_map

\* FunctionNode::FunctionNode(configp), lines 158-161: the delegated constructor names
\* the node L"<placeholder>", and m_funcName is taken from that name.
FunctionConstruct ==
    /\ nodeKind' = "Function"
    /\ m_nodeName' = Placeholder
    /\ m_funcName' = Narrow(Placeholder)
    /\ value' = ZeroTensor
    /\ fOutcome' = "none"
    /\ lastLog' = NoLog
    /\ lastOp' = "FunctionConstruct"
    /\ lastFr' = AllFrames
    /\ prevRun' = m_numMBsRun
    /\ UNCHANGED <<traceCfg, m_numMBsRun, numBegins, m_labelMapping, prologueCount, ckptVars, thrVars,
                   xValue, xGrad, gradient,
                   functions_map, externMutates, loads, resolved>>

\* ComputationNodeBase::SetName: the builder gives the constructed node its graph name.
SetName(newName) ==
    /\ nodeKind = "Function"
    /\ m_nodeName' = newName
    /\ lastLog' = NoLog
    /\ lastOp' = "SetName"
    /\ lastFr' = AllFrames
    /\ prevRun' = m_numMBsRun
    /\ UNCHANGED <<traceCfg, m_numMBsRun, numBegins, m_labelMapping, prologueCount, ckptVars, thrVars,
                   tensors, m_funcName, functions_map, externMutates, loads, resolved, fOutcome>>

\* The value of N after FunctionNode::ForwardProp (line 212), input being the view of
\* X that the external function was called on.
FunctionForwardValue(input, fr) == AssignCopyOf(value, input, ValueTensorFor(fr))

\* FunctionNode::ForwardProp (lines 208-212) with FunctionNodeExternCall (lines 223-238);
\* ok: Plugin::Load, if it is called, succeeds.
FunctionForwardProp(fr, ok) ==
    LET name == m_funcName
        miss == MapMisses(name)
        func == ResolveFunc(name)
        input == ExternApply(func, xValue, ValueTensorFor(fr))
    IN  /\ nodeKind = "Function"
        /\ miss => loads[name] < MaxLoads
        /\ functions_map' = MapAfterCall(name, ok)
        /\ loads' = IF miss /\ ok THEN [loads EXCEPT ![name] = @ + 1] ELSE loads
        /\ IF miss /\ ~ok
           THEN /\ fOutcome' = "LinkageError"
                /\ UNCHANGED <<xValue, value, resolved>>
           ELSE /\ fOutcome' = "Done"
                /\ resolved' = [resolved EXCEPT ![name] = @ \cup {func}]
                /\ xValue' = input
                /\ value' = FunctionForwardValue(input, fr)
        /\ lastLog' = NoLog
        /\ lastOp' = "FunctionForwardProp"
        /\ lastFr' = fr
        /\ prevRun' = m_numMBsRun
        /\ UNCHANGED <<traceCfg, m_numMBsRun, numBegins, m_labelMapping, prologueCount, ckptVars, thrVars,
                       nodeKind, xGrad, gradient, m_nodeName, m_funcName, externMutates>>

\* Mutant of FunctionBackpropGrad: the gradient is assigned, not added.
FunctionBackpropGradAssign(fr) == AssignCopyOf(xGrad, gradient, GradientTensorFor(fr))

\* The gradient of X after FunctionNode::BackpropTo (lines 295-302).
FunctionBackpropGrad(fr) == AddCopyOf(xGrad, gradient, GradientTensorFor(fr))

FunctionBackpropTo(fr) ==
    /\ nodeKind = "Function"
    /\ \A t \in Frames : FunctionBackpropGrad(fr)[t] <= MaxGrad
    /\ xGrad' = FunctionBackpropGrad(fr)
    /\ lastLog' = NoLog
    /\ lastOp' = "FunctionBackpropTo"
    /\ lastFr' = fr
    /\ prevRun' = m_numMBsRun
    /\ UNCHANGED <<traceCfg, m_numMBsRun, numBegins, m_labelMapping, prologueCount, ckptVars, thrVars,
                   nodeKind, xValue, value, gradient, funcVars>>

\* FunctionNode::Validate (lines 307-317): ValidateUnaryMap, and nothing of the node's own.
FunctionValidate(isFinalValidationPass) ==
    /\ nodeKind = "Function"
    /\ lastLog' = NoLog
    /\ lastOp' = "FunctionValidate"
    /\ lastFr' = AllFrames
    /\ prevRun' = m_numMBsRun
    /\ UNCHANGED <<traceCfg, m_numMBsRun, numBegins, m_labelMapping, prologueCount, ckptVars, thrVars,
                   tensors, funcVars>>

\* FunctionNode::BeginForwardProp (lines 198-203): the increment is commented out.
FunctionBeginForwardProp ==
    /\ nodeKind = "Function"
    /\ lastLog' = NoLog
    /\ lastOp' = "FunctionBeginForwardProp"
    /\ lastFr' = AllFrames
    /\ prevRun' = m_numMBsRun
    /\ UNCHANGED <<traceCfg, m_numMBsRun, numBegins, m_labelMapping, prologueCount, ckptVars, thrVars,
                   tensors, funcVars>>

\* What FunctionNode::Save writes after Base::Save (lines 174-182): nothing.
FunctionSaveStream == << >>

FunctionSave ==
    /\ nodeKind = "Function"
    /\ file' = FunctionSaveStream
    /\ lastLog' = NoLog
    /\ lastOp' = "FunctionSave"
    /\ lastFr' = AllFrames
    /\ prevRun' = m_numMBsRun
    /\ UNCHANGED <<traceCfg, m_numMBsRun, numBegins, m_labelMapping, prologueCount, saved, thrVars,
                   tensors, funcVars>>

\* FunctionNode::Load (lines 185-196): nothing is read after Base::Load.
FunctionLoad ==
    /\ nodeKind = "Function"
    /\ lastLog' = NoLog
    /\ lastOp' = "FunctionLoad"
    /\ lastFr' = AllFrames
    /\ prevRun' = m_numMBsRun
    /\ UNCHANGED <<traceCfg, m_numMBsRun, numBegins, m_labelMapping, prologueCount, ckptVars, thrVars,
                   tensors, funcVars>>

\* ------------------------------------- FunctionNode::ForwardProp in threads
\* Every thread evaluates a FunctionNode of its own, all of the operator name
\* m_funcName, on the whole minibatch; one step is one statement of the code.
Threads == 1 .. NumThreads

\* Lines 223-228 and 235: copy the map and look the name up.
ThreadLookup(t) ==
    /\ pc[t] = "idle"
    /\ IF MapMisses(m_funcName)
       THEN pc' = [pc EXCEPT ![t] = "load"] /\ UNCHANGED thrFunc
       ELSE /\ pc' = [pc EXCEPT ![t] = "invoke"]
            /\ thrFunc' = [thrFunc EXCEPT ![t] = ResolveFunc(m_funcName)]
    /\ UNCHANGED <<thrIn, thrOut>>
    /\ lastOp' = "ThreadLookup"
    /\ UNCHANGED <<traceCfg, m_numMBsRun, numBegins, m_labelMapping, tensors, lastLog, prologueCount,
                   lastFr, prevRun, ckptVars, funcVars>>

\* Line 232: Plugin::Load succeeds (ok) or throws.
ThreadLoad(t, ok) ==
    /\ pc[t] = "load"
    /\ IF ok
       THEN /\ pc' = [pc EXCEPT ![t] = "invoke"]
            /\ thrFunc' = [thrFunc EXCEPT ![t] = PluginLoad("abc", "f")]
            /\ loads' = [loads EXCEPT ![m_funcName] = @ + 1]
       ELSE /\ pc' = [pc EXCEPT ![t] = "failed"]
            /\ UNCHANGED <<thrFunc, loads>>
    /\ functions_map' = MapAfterCall(m_funcName, ok)
    /\ UNCHANGED <<thrIn, thrOut>>
    /\ lastOp' = "ThreadLoad"
    /\ UNCHANGED <<traceCfg, m_numMBsRun, numBegins, m_labelMapping, tensors, lastLog, prologueCount,
                   lastFr, prevRun, ckptVars,
                   m_nodeName, m_funcName, externMutates, resolved, fOutcome>>

\* Lines 237-238: the entry point is called on the view of the input.
ThreadInvoke(t) ==
    /\ pc[t] = "invoke"
    /\ pc' = [pc EXCEPT ![t] = "copy"]
    /\ thrIn' = [thrIn EXCEPT ![t] = ExternApply(thrFunc[t], thrIn[t], Frames)]
    /\ resolved' = [resolved EXCEPT ![m_funcName] = @ \cup {thrFunc[t]}]
    /\ UNCHANGED <<thrFunc, thrOut>>
    /\ lastOp' = "ThreadInvoke"
    /\ UNCHANGED <<traceCfg, m_numMBsRun, numBegins, m_labelMapping, tensors, lastLog, prologueCount,
                   lastFr, prevRun, ckptVars,
                   m_nodeName, m_funcName, functions_map, externMutates, loads, fOutcome>>

\* Line 212: the input is copied to the value of the thread's node.
ThreadCopy(t) ==
    /\ pc[t] = "copy"
    /\ pc' = [pc EXCEPT ![t] = "done"]
    /\ thrOut' = [thrOut EXCEPT ![t] = AssignCopyOf(thrOut[t], thrIn[t], Frames)]
    /\ UNCHANGED <<thrFunc, thrIn>>
    /\ lastOp' = "ThreadCopy"
    /\ UNCHANGED <<traceCfg, m_numMBsRun, numBegins, m_labelMapping, tensors, lastLog, prologueCount,
                   lastFr, prevRun, ckptVars, funcVars>>

\* ----------------------------------------------------- specifications
Strings == {EmptyStr, <<104, 105>>}
PlainFormat == [isCategoryLabel |-> FALSE, isSparse |-> FALSE,
                labelMappingFile |-> EmptyStr, prologue |-> <<104, 105>>]
ThrottleFirsts == {0, 2, 10}
ThrottleFreqs == {0, 3, 10}

\* The tensors before the first evaluation: a minibatch in X, a gradient in N.
InitTensors ==
    /\ xValue = [t \in Frames |-> t % (MaxVal + 1)]
    /\ xGrad = ZeroTensor
    /\ value = ZeroTensor
    /\ gradient = [t \in Frames |-> IF t = 0 THEN 0 ELSE 1]

\* Tensors that are all 0.
InitZeroTensors ==
    /\ xValue = ZeroTensor
    /\ xGrad = ZeroTensor
    /\ value = ZeroTensor
    /\ gradient = ZeroTensor

InitCached ==
    /\ m_numMBsRun = 0
    /\ numBegins = 0
    /\ m_labelMapping = << >>
    /\ lastLog = NoLog
    /\ prologueCount = 0
    /\ lastOp = "Init"
    /\ lastFr = AllFrames
    /\ prevRun = 0

InitCkpt ==
    /\ file = << >>
    /\ saved = NothingSaved

\* A FunctionNode as its constructor leaves it, and the empty static map of get_map().
InitFunction ==
    /\ m_nodeName = Placeholder
    /\ m_funcName = Narrow(Placeholder)
    /\ functions_map = EmptyMap
    /\ loads = [n \in FuncNames |-> 0]
    /\ resolved = [n \in FuncNames |-> {}]
    /\ fOutcome = "none"

InitThreads ==
    /\ pc = [t \in Threads |-> "idle"]
    /\ thrFunc = [t \in Threads |-> NullFunc]
    /\ thrIn = [t \in Threads |-> ZeroTensor]
    /\ thrOut = [t \in Threads |-> ZeroTensor]

\* SpecTrace: one TraceNode through validation epochs of up to MaxRuns forward passes.
InitTrace ==
    /\ m_message = <<104, 105>>
    /\ m_logFirst \in ThrottleFirsts
    /\ m_logFrequency \in ThrottleFreqs
    /\ m_logGradientToo \in BOOLEAN
    /\ m_formattingOptions = PlainFormat
    /\ m_onlyUpToRow = 1
    /\ m_onlyUpToT = 1
    /\ nodeKind = "Trace"
    /\ InitCached /\ InitZeroTensors /\ InitCkpt /\ InitFunction /\ InitThreads
    /\ externMutates = FALSE

NextTrace ==
    \/ \E b \in BOOLEAN : TraceValidate(b)
    \/ TraceBeginForwardProp(MaxRuns)
    \/ \E fr \in FrameRanges : TraceForwardProp(fr)
    \/ \E fr \in FrameRanges : TraceBackpropTo(fr)

SpecTrace == InitTrace /\ [][NextTrace]_vars

\* Spec: the graph X -> N, validated, evaluated and back-propagated in any order.
Init ==
    /\ m_message = EmptyStr
    /\ m_logFirst = 1
    /\ m_logFrequency = 2
    /\ m_logGradientToo \in BOOLEAN
    /\ m_formattingOptions = PlainFormat
    /\ m_onlyUpToRow = 1
    /\ m_onlyUpToT = 1
    /\ nodeKind \in {"Trace", "Function"}
    /\ InitCached /\ InitCkpt /\ InitFunction /\ InitThreads
    /\ InitTensors
    /\ externMutates \in BOOLEAN

Next ==
    \/ \E b \in BOOLEAN : TraceValidate(b)
    \/ TraceBeginForwardProp(MaxPasses)
    \/ \E fr \in FrameRanges : TraceForwardProp(fr)
    \/ \E fr \in FrameRanges : TraceBackpropTo(fr)
    \/ \E fr \in FrameRanges, ok \in BOOLEAN : FunctionForwardProp(fr, ok)
    \/ \E fr \in FrameRanges : FunctionBackpropTo(fr)

Spec == Init /\ [][Next]_vars

\* SpecFunc: FunctionNodes are constructed, named, evaluated and back-propagated.
InitFunc ==
    /\ m_message = EmptyStr
    /\ m_logFirst = 1
    /\ m_logFrequency = 2
    /\ m_logGradientToo = FALSE
    /\ m_formattingOptions = PlainFormat
    /\ m_onlyUpToRow = 1
    /\ m_onlyUpToT = 1
    /\ nodeKind = "Function"
    /\ InitCached /\ InitCkpt /\ InitFunction /\ InitThreads
    /\ InitTensors
    /\ externMutates \in BOOLEAN

NextFunc ==
    \/ FunctionConstruct
    \/ \E n \in NodeNames : SetName(n)
    \/ \E fr \in FrameRanges, ok \in BOOLEAN : FunctionForwardProp(fr, ok)
    \/ \E fr \in FrameRanges : FunctionBackpropTo(fr)

SpecFunc == InitFunc /\ [][NextFunc]_vars

\* SpecFuncLife: a FunctionNode from construction on, through every handler of the
\* class, on tensors that are 0 and with an external function that mutates nothing.
InitFuncLife ==
    /\ m_message = EmptyStr
    /\ m_logFirst = 1
    /\ m_logFrequency = 2
    /\ m_logGradientToo = FALSE
    /\ m_formattingOptions = PlainFormat
    /\ m_onlyUpToRow = 1
    /\ m_onlyUpToT = 1
    /\ nodeKind = "Function"
    /\ InitCached /\ InitZeroTensors /\ InitCkpt /\ InitFunction /\ InitThreads
    /\ externMutates = FALSE

NextFuncLife ==
    \/ FunctionConstruct
    \/ \E n \in NodeNames : SetName(n)
    \/ \E b \in BOOLEAN : FunctionValidate(b)
    \/ FunctionBeginForwardProp
    \/ \E fr \in FrameRanges, ok \in BOOLEAN : FunctionForwardProp(fr, ok)
    \/ \E fr \in FrameRanges : FunctionBackpropTo(fr)
    \/ FunctionSave
    \/ FunctionLoad

SpecFuncLife == InitFuncLife /\ [][NextFuncLife]_vars

\* SpecCkpt: TraceNodes are constructed, saved to and loaded from the checkpoint stream.
FormatChoices ==
    {PlainFormat,
     [isCategoryLabel |-> TRUE, isSparse |-> FALSE,
      labelMappingFile |-> <<104, 105>>, prologue |-> EmptyStr],
     [isCategoryLabel |-> FALSE, isSparse |-> TRUE,
      labelMappingFile |-> EmptyStr, prologue |-> EmptyStr]}
CkptConfigs ==
    {c \in [message : Strings, logFirst : {1, 2}, logFrequency : {0, 3},
            logGradientToo : BOOLEAN, formattingOptions : FormatChoices,
            onlyUpToRow : {4, 5}, onlyUpToT : {5, 6}] :
        /\ c.onlyUpToT = c.onlyUpToRow + 1
        /\ c.logFrequency = 0 <=> c.logFirst = 1}

InitCkptSpec ==
    /\ \E config \in CkptConfigs :
           /\ m_message = config.message
           /\ m_logFirst = config.logFirst
           /\ m_logFrequency = config.logFrequency
           /\ m_logGradientToo = config.logGradientToo
           /\ m_formattingOptions = config.formattingOptions
           /\ m_onlyUpToRow = config.onlyUpToRow
           /\ m_onlyUpToT = config.onlyUpToT
    /\ nodeKind = "Trace"
    /\ InitCached /\ InitTensors /\ InitCkpt /\ InitFunction /\ InitThreads
    /\ externMutates = FALSE

NextCkpt ==
    \/ \E config \in CkptConfigs : TraceConstruct(config)
    \/ TraceSave
    \/ TraceLoad

SpecCkpt == InitCkptSpec /\ [][NextCkpt]_vars

\* SpecLife: a TraceNode from construction on, through validation, forward and backward
\* passes, Save and Load, in any order.
LifeFormats ==
    {PlainFormat,
     [isCategoryLabel |-> TRUE, isSparse |-> FALSE,
      labelMappingFile |-> <<104, 105>>, prologue |-> EmptyStr],
     [isCategoryLabel |-> FALSE, isSparse |-> TRUE,
      labelMappingFile |-> <<97>>, prologue |-> EmptyStr],
     [isCategoryLabel |-> TRUE, isSparse |-> FALSE,
      labelMappingFile |-> EmptyStr, prologue |-> EmptyStr]}
LifeConfigs ==
    {c \in [message : {EmptyStr}, logFirst : {1}, logFrequency : {2},
            logGradientToo : BOOLEAN, formattingOptions : LifeFormats,
            onlyUpToRow : {4}, onlyUpToT : {5}] :
        c.logGradientToo <=> c.formattingOptions.isCategoryLabel}

InitLife ==
    /\ \E config \in LifeConfigs :
           /\ m_message = config.message
           /\ m_logFirst = config.logFirst
           /\ m_logFrequency = config.logFrequency
           /\ m_logGradientToo = config.logGradientToo
           /\ m_formattingOptions = config.formattingOptions
           /\ m_onlyUpToRow = config.onlyUpToRow
           /\ m_onlyUpToT = config.onlyUpToT
    /\ nodeKind = "Trace"
    /\ InitCached /\ InitZeroTensors /\ InitCkpt /\ InitFunction /\ InitThreads
    /\ externMutates = FALSE

NextLife ==
    \/ \E config \in LifeConfigs : TraceConstruct(config)
    \/ \E b \in BOOLEAN : TraceValidate(b)
    \/ TraceBeginForwardProp(MaxPasses)
    \/ \E fr \in FrameRanges \cup EmptyTimeRanges : TraceForwardProp(fr)
    \/ \E fr \in FrameRanges : TraceBackpropTo(fr)
    \/ TraceSave
    \/ TraceLoad

SpecLife == InitLife /\ [][NextLife]_vars

\* SpecConc: NumThreads threads evaluate FunctionNodes of one operator name, each once.
InitConc ==
    /\ m_message = EmptyStr
    /\ m_logFirst = 1
    /\ m_logFrequency = 2
    /\ m_logGradientToo = FALSE
    /\ m_formattingOptions = PlainFormat
    /\ m_onlyUpToRow = 1
    /\ m_onlyUpToT = 1
    /\ nodeKind = "Function"
    /\ InitCached /\ InitTensors /\ InitCkpt /\ InitFunction
    /\ pc = [t \in Threads |-> "idle"]
    /\ thrFunc = [t \in Threads |-> NullFunc]
    /\ thrIn \in [Threads -> Tensors]
    /\ thrOut = [t \in Threads |-> ZeroTensor]
    /\ externMutates \in BOOLEAN

NextConc ==
    \/ \E t \in Threads : ThreadLookup(t)
    \/ \E t \in Threads, ok \in BOOLEAN : ThreadLoad(t, ok)
    \/ \E t \in Threads : ThreadInvoke(t)
    \/ \E t \in Threads : ThreadCopy(t)

SpecConc == InitConc /\ [][NextConc]_vars

\* --------------------------------------------------- claims on SpecTrace
\* C2: every call of Log prints the trace record iff RunCounter <= logFirst, or
\* logFrequency # 0 and (RunCounter - 1) mod logFrequency = 0; with logFirst = 10 and
\* logFrequency = 10 the runs among 1..30 that print are 1..10, 11 and 21, and with
\* logFrequency = 0 the runs from 1 on that print are 1..10.
C2_Throttle ==
    lastLog.called =>
        /\ lastLog.emitted <=>
               \/ lastLog.run <= m_logFirst
               \/ m_logFrequency # 0 /\ (lastLog.run - 1) % m_logFrequency = 0
        /\ (m_logFirst = 10 /\ m_logFrequency = 10 /\ lastLog.run \in 1 .. 30) =>
               (lastLog.emitted <=> lastLog.run \in (1 .. 10) \cup {11, 21})
        /\ (m_logFirst = 10 /\ m_logFrequency = 0 /\ lastLog.run >= 1) =>
               (lastLog.emitted <=> lastLog.run \in 1 .. 10)

\* Run 21 of a node with logFirst = 10, logFrequency = 10 printed its record.
C2_Witness ==
    /\ lastLog.called /\ lastLog.emitted /\ lastLog.run = 21
    /\ m_logFirst = 10 /\ m_logFrequency = 10

\* C3: in one validation epoch the prologue is written once and never again, whatever
\* ForwardProp and BackpropTo calls the epoch holds.
C3_PrologueOnce == prologueCount <= 1

\* C4: after every TraceNode::Validate, final pass or not, RunCounter is 0.
C4_ResetOnValidate == lastOp = "TraceValidate" => m_numMBsRun = 0

\* A Validate that found RunCounter above 0 and left it 0.
C4_Witness == lastOp = "TraceValidate" /\ prevRun > 0 /\ m_numMBsRun = 0

\* ------------------------------------------- claims on SpecFunc and Spec
\* The frames the frame range fr addresses.
Slice(fr) == IF fr.all THEN Frames ELSE {t \in Frames : fr.first <= t /\ t < fr.second}

\* C1: every resolution of an operator name yields the same entry point, and the
\* load-and-bind for the name happens at most once in the process.
C1_Idempotent ==
    \A n \in FuncNames : Cardinality(resolved[n]) <= 1 /\ loads[n] <= 1

\* C5: a forward evaluation that resolves a name absent from the registry and whose
\* load or symbol binding fails ends in LinkageError, and the registry is what it was.
C5_MissingSymbol ==
    [][(/\ m_funcName \notin DOMAIN functions_map
        /\ \E fr \in FrameRanges : FunctionForwardProp(fr, FALSE))
       => (fOutcome' = "LinkageError" /\ functions_map' = functions_map)]_vars

\* An evaluation ended in LinkageError after an earlier one had loaded the module.
C5_Witness ==
    /\ lastOp = "FunctionForwardProp" /\ fOutcome = "LinkageError"
    /\ loads[m_funcName] > 0 /\ m_funcName \notin DOMAIN functions_map

\* C6: after TraceNode::ForwardProp(fr), and after a FunctionNode::ForwardProp(fr) whose
\* external function mutates nothing, the value of the node equals the value of the
\* input on every frame fr addresses.
C6_PassThrough ==
    /\ lastOp = "TraceForwardProp" => \A t \in Slice(lastFr) : value[t] = xValue[t]
    /\ (lastOp = "FunctionForwardProp" /\ fOutcome = "Done" /\ ~externMutates)
           => \A t \in Slice(lastFr) : value[t] = xValue[t]

\* A FunctionNode whose external function mutates nothing copied a frame that is not 0.
C6_Witness ==
    /\ lastOp = "FunctionForwardProp" /\ fOutcome = "Done" /\ ~externMutates
    /\ \E t \in Slice(lastFr) : value[t] = xValue[t] /\ value[t] # 0

\* C7: BackpropTo(0, fr) of either node adds the gradient of the node to the gradient
\* of the input on the frames of fr and leaves the gradient of the node as it is;
\* FunctionNode::BackpropTo looks nothing up, loads nothing and invokes nothing.
C7_IdentityGradient ==
    [][/\ lastOp' \in {"TraceBackpropTo", "FunctionBackpropTo"} =>
              /\ \A t \in Slice(lastFr') : xGrad'[t] = xGrad[t] + gradient[t]
              /\ gradient' = gradient
       /\ lastOp' = "FunctionBackpropTo" =>
              /\ functions_map' = functions_map /\ loads' = loads /\ resolved' = resolved
              /\ xValue' = xValue /\ value' = value /\ fOutcome' = fOutcome]_vars

\* A FunctionNode::BackpropTo added a gradient to an input gradient that was not 0.
C7_Witness ==
    /\ lastOp = "FunctionBackpropTo"
    /\ \E t \in Slice(lastFr) : gradient[t] > 0 /\ xGrad[t] > gradient[t]

\* C10: after a forward evaluation that resolved a name, the registry holds the name,
\* mapped to the entry point that was returned.
C10_CacheFill ==
    (lastOp = "FunctionForwardProp" /\ fOutcome = "Done") =>
        /\ m_funcName \in DOMAIN functions_map
        /\ resolved[m_funcName] = {functions_map[m_funcName]}

\* ---------------------------------------------------- claims on SpecCkpt
\* C8: TraceNode::Load after TraceNode::Save, into any node, yields the seven persisted
\* fields of the node that was saved.
C8_RoundTrip == lastOp = "TraceLoad" => PersistedFields = saved.node

\* A Load changed the node it loaded into, to a node of non-empty strings.
C8_Witness ==
    /\ lastOp = "TraceLoad" /\ saved.differed /\ PersistedFields = saved.node
    /\ m_message # EmptyStr /\ m_formattingOptions.labelMappingFile # EmptyStr
    /\ m_logGradientToo

\* ---------------------------------------------------- claims on SpecConc
\* C9: when threads evaluate FunctionNodes of one unresolved name at the same time, the
\* module is loaded at most once and all threads invoke the same entry point.
C9_LoadedOnce ==
    /\ loads[m_funcName] <= 1
    /\ \A t, u \in Threads :
           (pc[t] \in {"copy", "done"} /\ pc[u] \in {"copy", "done"}) => thrFunc[t] = thrFunc[u]

\* ------------------------------------------- further claims on SpecFunc
\* C11: FunctionNode::ForwardProp hands the external function the view of the output,
\* never the view of the input: the value of the input node is what it was before the
\* call, also when the external function mutates the tensor it receives.
C11_InputUntouched ==
    [][lastOp' = "FunctionForwardProp" => xValue' = xValue]_vars

\* C12: for names absent from the registry, the symbol that FunctionNodeExternCall binds
\* is derived from the name: the symbol a forward evaluation bound and invoked for the
\* operator name of its node is not the symbol bound for a different operator name.
C12_NameDerived ==
    (lastOp = "FunctionForwardProp" /\ fOutcome = "Done") =>
        \A other \in FuncNames \ {m_funcName} :
            MapMisses(other) =>
                \A func \in resolved[m_funcName] : func.symbol # ResolveFunc(other).symbol

\* ---------------------------------------------------- claims on SpecLife
\* C13: RunCounter equals the number of BeginForwardProp calls made since the most
\* recent Validate (or since construction); ForwardProp, BackpropTo, Log, Save and Load
\* leave it as it was, and every Log call of a pass sees the run number of the pass.
C13_RunCounter ==
    /\ m_numMBsRun = numBegins
    /\ lastOp \in {"TraceForwardProp", "TraceBackpropTo", "TraceSave", "TraceLoad"}
           => m_numMBsRun = prevRun
    /\ lastLog.called => lastLog.run = numBegins

\* A ForwardProp of the second pass since Validate, after a Load that changed the node.
C13_Witness ==
    /\ lastOp = "TraceForwardProp" /\ lastLog.called /\ lastLog.run = 2
    /\ numBegins = 2 /\ saved.differed

\* ------------------------------------------------ further claims on Spec
\* C14: TraceNode::BackpropTo logs the gradient only if logGradientToo is set, and what
\* it logs is the input gradient after the addition; with logGradientToo unset no
\* gradient record is ever written, and with it set the gradient record is written in
\* exactly the runs with RunCounter <= logFirst, or logFrequency # 0 and
\* (RunCounter - 1) mod logFrequency = 0.
C14_GradientGate ==
    /\ lastOp = "TraceBackpropTo" =>
           /\ ~m_logGradientToo => ~lastLog.called
           /\ m_logGradientToo =>
                  /\ lastLog.called
                  /\ lastLog.gradient <=>
                         \/ m_numMBsRun <= m_logFirst
                         \/ m_logFrequency # 0 /\ (m_numMBsRun - 1) % m_logFrequency = 0
           /\ lastLog.gradient => lastLog.shown = xGrad
    /\ ~m_logGradientToo => ~lastLog.gradient
    /\ lastOp # "TraceBackpropTo" => ~lastLog.gradient

\* A gradient record that shows an input gradient the BackpropTo had just added to.
C14_Witness ==
    /\ lastOp = "TraceBackpropTo" /\ m_logGradientToo /\ lastLog.gradient
    /\ \E t \in Slice(lastFr) : lastLog.shown[t] > 0 /\ lastLog.shown[t] = xGrad[t]

\* C15: TraceNode::Validate loads the label mapping only in a final validation pass, with
\* the mapping still empty, category-label or sparse rendering requested and a file path
\* set, and then it does load it; a pass that is not final never changes the mapping,
\* and a mapping that is not empty is changed by no later Validate and by no Load.
C15_LabelMappingOnce ==
    [][/\ (lastOp' = "TraceValidate" /\ m_labelMapping' # m_labelMapping) =>
              /\ TraceValidate(TRUE)
              /\ m_labelMapping = << >>
              /\ m_formattingOptions.isCategoryLabel \/ m_formattingOptions.isSparse
              /\ m_formattingOptions.labelMappingFile # EmptyStr
       /\ (/\ TraceValidate(TRUE)
           /\ m_labelMapping = << >>
           /\ m_formattingOptions.isCategoryLabel \/ m_formattingOptions.isSparse
           /\ m_formattingOptions.labelMappingFile # EmptyStr)
              => m_labelMapping' # << >>
       /\ TraceValidate(FALSE) => m_labelMapping' = m_labelMapping
       /\ (m_labelMapping # << >> /\ lastOp' \in {"TraceValidate", "TraceLoad"})
              => m_labelMapping' = m_labelMapping]_vars

\* A Validate kept the mapping of one file after a Load had set the path of another.
C15_Witness ==
    /\ lastOp = "TraceValidate"
    /\ m_labelMapping = <<"label0", "label1">>
    /\ m_formattingOptions.isSparse /\ m_formattingOptions.labelMappingFile = <<97>>

\* -------------------------------------------- further claims on SpecConc
\* C16: one forward evaluation goes Idle -> Resolving -> Invoked -> Done, Resolving being
\* entered only when the name has not been resolved yet; the load-and-bind is attempted
\* at most once and has no retry edge, a failed resolution is terminal and invokes
\* nothing, and the entry point is invoked once before Done.
C16_StateMachine ==
    [][\A t \in Threads :
           /\ (pc[t] = "idle" /\ pc'[t] = "load") => resolved[m_funcName] = {}
           /\ pc'[t] # pc[t] =>
                  <<pc[t], pc'[t]>> \in {<<"idle", "load">>, <<"idle", "invoke">>,
                                         <<"load", "invoke">>, <<"load", "failed">>,
                                         <<"invoke", "copy">>, <<"copy", "done">>}]_vars

\* ------------------------------------------------ claims on SpecFuncLife
\* C17: construction from a config leaves the operator name equal to the graph name of
\* the node, Save, Load, Validate, BeginForwardProp, ForwardProp and BackpropTo do not
\* change it, and the name every ForwardProp looks up is the graph name of its node.
C17_NameFixed ==
    [][/\ lastOp' = "FunctionConstruct" => m_funcName' = Narrow(m_nodeName')
       /\ lastOp' \in {"FunctionSave", "FunctionLoad", "FunctionValidate",
                       "FunctionBeginForwardProp", "FunctionForwardProp",
                       "FunctionBackpropTo"} => m_funcName' = m_funcName
       /\ lastOp' = "FunctionForwardProp" => m_funcName = Narrow(m_nodeName)]_vars

\* -------------------------------------------- further claims on SpecLife
\* C18: the text between "Trace[" and "]" of an emitted record is empty for a frame
\* range of all frames, is the index first when second = first + 1, denotes the frames
\* from first up to the exclusive end second when second > first + 1, and is empty in
\* every other case.
C18_TimeLabel ==
    lastLog.emitted =>
        /\ lastFr.all => lastLog.label = << >>
        /\ (~lastFr.all /\ lastFr.second = lastFr.first + 1) => lastLog.label = <<lastFr.first>>
        /\ (~lastFr.all /\ lastFr.second > lastFr.first + 1) =>
               /\ Len(lastLog.label) = 2
               /\ lastLog.label[1] = lastFr.first
               /\ lastLog.label[2] + 1 = lastFr.second
        /\ (~lastFr.all /\ lastFr.second < lastFr.first + 1) => lastLog.label = << >>

\* A record for the frames 0 and 1 was emitted with the label of first and last frame.
C18_Witness ==
    /\ lastLog.emitted /\ ~lastFr.all /\ lastFr.first = 0 /\ lastFr.second = 2
    /\ lastLog.label = <<0, 1>>

====
